---- MODULE Spec2Model ----
(***************************************************************************)
(* A model of the mycoin fork manager (src/network.rs), the fork body      *)
(* (src/blockchain.rs) and the transaction helpers (src/transaction.rs).   *)
(*                                                                         *)
(* A block hash is the sequence of its characters, "0x" followed by hex    *)
(* digits (abbreviated to three digits here).  Within the block universe a *)
(* hash determines the block (SHA-256 is taken to be collision free).      *)
(* A Vec<Output> filled from a HashSet (Blockchain.outputs, state.outputs) *)
(* is represented by the set of its elements: its order is the iteration   *)
(* order of the HashSet, which the program does not define.                *)
(* A panic (unwrap of None, index out of range) ends the process: the      *)
(* model records result = "panic" and takes no further step.               *)
(* totalWork is a u64: u64::pow(16, difficulty) overflows for a difficulty *)
(* of 16 or more, which panics in a build with overflow checks (debug) and *)
(* wraps to 0 in a build without them (release).                           *)
(***************************************************************************)
EXTENDS Integers, Sequences, FiniteSets, TLC

VARIABLES
    recent_blocks,        \* Network.recent_blocks: hash -> cache entry
    recent_blocks_queue,  \* Network.recent_blocks_queue
    forks,                \* Network.forks: tip hash -> fork entry
    heads,                \* Network.heads
    blocks,               \* Network.blocks: the main chain, <<Block, timestamp>>
    blocks_set,           \* Network.blocks_set
    state,                \* Network.state
    clock,                \* the wall clock read by now()
    cmd,                  \* the last call: [op, block]
    result,               \* what the last call printed: "ok", an error, or "panic"
    accepted,             \* number of calls that returned true
    overflow_checks       \* whether the build checks integer overflow

netvars == <<recent_blocks, recent_blocks_queue, forks, heads, blocks, blocks_set, state>>
vars == <<recent_blocks, recent_blocks_queue, forks, heads, blocks, blocks_set, state,
          clock, cmd, result, accepted, overflow_checks>>

-----------------------------------------------------------------------------
(* Bounds *)

MaxAccepted == 5
MaxTime == 1
MaxForkAccepted == 6

MaxWorkAccepted == 4

(* Program constant: main.rs creates Network::new(2) *)
recent_count_limit == 2

(* Program constant: totalWork is a u64 *)
WorkBits == 64

-----------------------------------------------------------------------------
(* Messages *)

Ok == "ok"
Panic == "panic"
ErrMustInit == "must initialize first"
ErrLeadingZeroes == "leading zeroes in block hash did not match difficulty"
ErrNoPredecessor == "no predecessor found"
ErrDuplicate == "duplicate hash"
ErrDifficulty == "difficulty must not decrease"
ErrTransaction == "invalid transaction"

Errors == {ErrMustInit, ErrLeadingZeroes, ErrNoPredecessor, ErrDuplicate,
           ErrDifficulty, ErrTransaction}

-----------------------------------------------------------------------------
(* Maps (HashMap) as functions *)

EmptyMap == << >>
MapInsert(m, k, v) == [x \in (DOMAIN m) \cup {k} |-> IF x = k THEN v ELSE m[x]]
MapRemove(m, k) == [x \in (DOMAIN m) \ {k} |-> m[x]]


-----------------------------------------------------------------------------
(* Transactions: src/transaction.rs *)

Out(i, a) == [id |-> i, amount |-> a]
Tx(ins, outs) == [inputs |-> ins, outputs |-> outs]

RECURSIVE SumAmounts(_)
SumAmounts(s) == IF s = << >> THEN 0 ELSE Head(s).amount + SumAmounts(Tail(s))

input_value(t) == SumAmounts(t.inputs)
output_value(t) == SumAmounts(t.outputs)
inputs(t) == {t.inputs[i] : i \in DOMAIN t.inputs}
outputs(t) == {t.outputs[i] : i \in DOMAIN t.outputs}
is_coinbase(t) == Len(t.inputs) = 0

-----------------------------------------------------------------------------
(* Blocks: src/block.rs *)

Block(d, h, p, txs) ==
    [difficulty |-> d, hash |-> h, nonce |-> 0, predecessor |-> p, transactions |-> txs]

(* The outputs a block spends and creates: the loops over block.transactions *)
blocks_spent(block) ==
    UNION {inputs(block.transactions[i]) : i \in DOMAIN block.transactions}
blocks_created(block) ==
    UNION {outputs(block.transactions[i]) : i \in DOMAIN block.transactions}

(* "0x" followed by `d` zeroes *)
ZeroPrefix(d) == <<"0", "x">> \o [i \in 1..d |-> "0"]

(* The leading-zero comparison of Network::submit; split_at panics when the *)
(* split point lies beyond the hash.                                        *)
HashSplitPanics(block) == 2 + block.difficulty > Len(block.hash)
LeadingZeroesMatch(block) ==
    SubSeq(block.hash, 1, 2 + block.difficulty) = ZeroPrefix(block.difficulty)

(* u64::pow(16, difficulty): 16^d = 2^(4d) needs more than WorkBits bits   *)
(* when 4d >= WorkBits; the checked build panics, the other wraps to 0     *)
Pow16Overflows(d) == 4 * d >= WorkBits
Pow16Aborts(d) == overflow_checks /\ Pow16Overflows(d)
Pow16(d) == IF Pow16Overflows(d) THEN 0 ELSE 16 ^ d

-----------------------------------------------------------------------------
(* Fork body: src/blockchain.rs *)

NewBlockchain == [blocks |-> << >>, blocks_set |-> {}, outputs |-> {}, outputs_set |-> {}]

ApplyBlock(chain, block, timestamp) ==
    LET utxo == (chain.outputs_set \ blocks_spent(block)) \cup blocks_created(block)
    IN  [blocks |-> Append(chain.blocks, <<block, timestamp>>),
         blocks_set |-> chain.blocks_set \cup {block.hash},
         outputs |-> utxo,
         outputs_set |-> utxo]

(* Blockchain::init: always succeeds *)
Blockchain_init(chain, block, timestamp) ==
    [ok |-> TRUE, chain |-> ApplyBlock(chain, block, timestamp)]

(* Variant: a transaction without inputs is let through with any outputs   *)
RECURSIVE TransactionsValid_CoinbaseMints(_, _, _, _)
TransactionsValid_CoinbaseMints(txs, i, utxo, spent) ==
    IF i > Len(txs) THEN TRUE
    ELSE LET ins == inputs(txs[i])
         IN  IF (ins \ utxo) # {} \/ (ins \cap spent) # {} THEN FALSE
             ELSE IF ~is_coinbase(txs[i]) /\ output_value(txs[i]) # input_value(txs[i])
                  THEN FALSE
                  ELSE TransactionsValid_CoinbaseMints(txs, i + 1, utxo, spent \cup ins)

(* The per-transaction checks of Blockchain::submit, in transaction order, *)
(* with the running set of the outputs spent earlier in the block.          *)
RECURSIVE TransactionsValid(_, _, _, _)
TransactionsValid(txs, i, utxo, spent) ==
    IF i > Len(txs) THEN TRUE
    ELSE LET ins == inputs(txs[i])
         IN  IF (ins \ utxo) # {} \/ (ins \cap spent) # {} THEN FALSE
             ELSE IF output_value(txs[i]) # input_value(txs[i]) THEN FALSE
             ELSE TransactionsValid(txs, i + 1, utxo, spent \cup ins)

Blockchain_submit(chain, block, timestamp) ==
    IF TransactionsValid(block.transactions, 1, chain.outputs_set, {})
    THEN [ok |-> TRUE, chain |-> ApplyBlock(chain, block, timestamp)]
    ELSE [ok |-> FALSE, chain |-> chain]

-----------------------------------------------------------------------------
(* Fork manager: src/network.rs *)

NoHash == << >>

EmptyState == [height |-> 0, totalWork |-> 0, hash |-> NoHash, outputs |-> {}]

(* Network::new *)
NewNetwork ==
    [recent_blocks |-> EmptyMap, recent_blocks_queue |-> << >>, forks |-> EmptyMap,
     heads |-> {}, blocks |-> << >>, blocks_set |-> {}, state |-> EmptyState]

MkHead(height, total_work, hash) == [height |-> height, totalWork |-> total_work, hash |-> hash]

ForkEntry(height, created_at, total_work, chain) ==
    [height |-> height, created_at |-> created_at, totalWork |-> total_work, chain |-> chain]

RecentEntry(height, created_at, total_work, block, outputs_set, outs) ==
    [height |-> height, created_at |-> created_at, totalWork |-> total_work,
     block |-> block, outputs_set |-> outputs_set, outputs |-> outs]

(* get_main_chain, first loop: the largest totalWork, starting from 0 *)
max_total_work(hd) ==
    LET works == {h.totalWork : h \in hd} \cup {0}
    IN  CHOOSE w \in works : \A v \in works : v <= w

(* get_main_chain, second loop *)
heads_with_largest_total_work(hd) == {h \in hd : h.totalWork = max_total_work(hd)}

(* Variant: the tie-break keeps the newest head instead of the oldest *)
OldestHeads_Newest(fk, tied) ==
    {h \in tied : \A g \in tied : fk[h.hash].created_at >= fk[g.hash].created_at}

(* get_main_chain, the tie-break: among the heads of largest totalWork the  *)
(* first one, in the iteration order of the HashSet, of the smallest        *)
(* created_at; any of the oldest ones may be that first one.                *)
OldestHeads(fk, tied) ==
    {h \in tied : \A g \in tied : fk[h.hash].created_at <= fk[g.hash].created_at}

(* The values max_total_work_head_hash may have when forks is looked up;   *)
(* "unwrap" stands for a panic of the lookup inside the tie-break loop.     *)
SelectedHeadHashes(fk, hd) ==
    LET tied == heads_with_largest_total_work(hd)
    IN  IF Cardinality(tied) > 1
        THEN IF \E h \in tied : h.hash \notin DOMAIN fk
             THEN {"unwrap"}
             ELSE {h.hash : h \in OldestHeads(fk, tied)}
        ELSE IF max_total_work(hd) > 0
             THEN {h.hash : h \in tied}
             ELSE {NoHash}

MainChainOf(fk, hash) ==
    IF hash \in DOMAIN fk
    THEN [panic |-> FALSE,
          blocks |-> fk[hash].chain.blocks,
          blocks_set |-> fk[hash].chain.blocks_set,
          state |-> [height |-> fk[hash].height, totalWork |-> fk[hash].totalWork,
                     hash |-> hash, outputs |-> fk[hash].chain.outputs]]
    ELSE [panic |-> TRUE, blocks |-> << >>, blocks_set |-> {}, state |-> EmptyState]

(* Network::get_main_chain: the results it may return *)
get_main_chain(fk, hd) ==
    IF hd = {}
    THEN {[panic |-> FALSE, blocks |-> << >>, blocks_set |-> {}, state |-> EmptyState]}
    ELSE {MainChainOf(fk, hash) : hash \in SelectedHeadHashes(fk, hd)}

(* Variant: the loop does not stop at the block it was asked for *)
RECURSIVE ChainLoop_NoBreak(_, _, _, _, _)
ChainLoop_NoBreak(blks, hash, i, chain, total_work) ==
    IF i > Len(blks) THEN [chain |-> chain, total_work |-> total_work]
    ELSE LET block == blks[i][1]
             utxos == (chain.outputs_set \ blocks_spent(block)) \cup blocks_created(block)
             next == [blocks |-> Append(chain.blocks, blks[i]),
                      blocks_set |-> chain.blocks_set \cup {block.hash},
                      outputs |-> utxos,
                      outputs_set |-> utxos]
             work == total_work + Pow16(block.difficulty)
         IN  ChainLoop_NoBreak(blks, hash, i + 1, next, work)

(* Network::compute_chain_at_block: the loop over self.blocks from index i *)
RECURSIVE ChainLoop(_, _, _, _, _)
ChainLoop(blks, hash, i, chain, total_work) ==
    IF i > Len(blks) THEN [chain |-> chain, total_work |-> total_work]
    ELSE LET block == blks[i][1]
             utxos == (chain.outputs_set \ blocks_spent(block)) \cup blocks_created(block)
             next == [blocks |-> Append(chain.blocks, blks[i]),
                      blocks_set |-> chain.blocks_set \cup {block.hash},
                      outputs |-> utxos,
                      outputs_set |-> utxos]
             work == total_work + Pow16(block.difficulty)
         IN  IF block.hash = hash
             THEN [chain |-> next, total_work |-> work]
             ELSE ChainLoop(blks, hash, i + 1, next, work)

compute_chain_at_block(blks, hash) == ChainLoop(blks, hash, 1, NewBlockchain, 0)

(* The recent-tip cache update after a successful init or submit *)
UpdateRecent(n, bhash, entry) ==
    IF n.blocks[Len(n.blocks)][1].hash = bhash
    THEN LET inserted == MapInsert(n.recent_blocks, bhash, entry)
             full == Len(n.recent_blocks_queue) = recent_count_limit
                     /\ n.recent_blocks_queue # << >>
         IN  [n EXCEPT
                !.recent_blocks = IF full THEN MapRemove(inserted, Head(n.recent_blocks_queue))
                                  ELSE inserted,
                !.recent_blocks_queue =
                    Append(IF full THEN Tail(n.recent_blocks_queue)
                           ELSE n.recent_blocks_queue, bhash)]
    ELSE n

Rejected(n, message) == [result |-> message, net |-> n]

(* The part of init and submit after forks and heads are updated:          *)
(* get_main_chain, the three assignments, the cache update, "ok".           *)
Finish(n, bhash, entry) ==
    {IF m.panic THEN Rejected(n, Panic)
     ELSE [result |-> Ok,
           net |-> UpdateRecent([n EXCEPT !.blocks = m.blocks,
                                          !.blocks_set = m.blocks_set,
                                          !.state = m.state], bhash, entry)]
     : m \in get_main_chain(n.forks, n.heads)}

DuplicateHash(n, bhash) == bhash \in DOMAIN n.forks \/ bhash \in n.blocks_set

(* Network::init: the outcomes of the call *)
Network_init(n, block, timestamp) ==
    LET bhash == block.hash
        total_work == Pow16(block.difficulty)
        b == Blockchain_init(NewBlockchain, block, timestamp)
        n1 == [n EXCEPT
                 !.forks = MapInsert(n.forks, bhash,
                                     ForkEntry(1, timestamp, total_work, b.chain)),
                 !.heads = n.heads \cup {MkHead(1, total_work, bhash)}]
    IN  IF DuplicateHash(n, bhash) THEN {Rejected(n, ErrDuplicate)}
        ELSE IF Pow16Aborts(block.difficulty) THEN {Rejected(n, Panic)}
        ELSE Finish(n1, bhash,
                    RecentEntry(1, timestamp, total_work, block,
                                b.chain.outputs_set, b.chain.outputs))

(* Network::submit, predecessor is a head: the entry of forks *)
ResolveTip(n, predecessor_hash) ==
    [panic |-> FALSE,
     predecessor_height |-> n.forks[predecessor_hash].height,
     predecessor_total_work |-> n.forks[predecessor_hash].totalWork,
     chain |-> n.forks[predecessor_hash].chain]

(* Network::submit, predecessor in recent_blocks: the hashes taken out of   *)
(* the main chain's blocks_set                                              *)
blocks_to_exclude(n, predecessor_height) ==
    {n.recent_blocks_queue[i] : i \in
        {j \in DOMAIN n.recent_blocks_queue :
            n.recent_blocks[n.recent_blocks_queue[j]].height <= predecessor_height}}

(* Network::submit, predecessor in recent_blocks: the chain rebuilt from    *)
(* the cache entry; the lookup of a queued hash panics when it has no entry *)
ResolveRecent(n, predecessor_hash) ==
    LET e == n.recent_blocks[predecessor_hash]
        predecessor_height == e.height
        sb == IF Len(n.blocks) >= predecessor_height
              THEN SubSeq(n.blocks, 1, predecessor_height)
              ELSE n.blocks
    IN  IF \E i \in DOMAIN n.recent_blocks_queue :
              n.recent_blocks_queue[i] \notin DOMAIN n.recent_blocks
        THEN [panic |-> TRUE, predecessor_height |-> 0, predecessor_total_work |-> 0,
              chain |-> NewBlockchain]
        ELSE [panic |-> FALSE,
              predecessor_height |-> predecessor_height,
              predecessor_total_work |-> e.totalWork,
              chain |-> [blocks |-> sb,
                         blocks_set |-> n.blocks_set \ blocks_to_exclude(n, predecessor_height),
                         outputs |-> e.outputs,
                         outputs_set |-> e.outputs_set]]

(* Network::submit, predecessor older than the cache: the replay *)
ResolveReplay(n, predecessor_hash) ==
    LET r == compute_chain_at_block(n.blocks, predecessor_hash)
    IN  [panic |-> \E i \in DOMAIN r.chain.blocks :
                          Pow16Aborts(r.chain.blocks[i][1].difficulty),
         predecessor_height |-> Len(r.chain.blocks),
         predecessor_total_work |-> r.total_work,
         chain |-> r.chain]

PathTip == "tip"
PathRecent == "recent"
PathReplay == "replay"

ResolvePath(n, predecessor_hash) ==
    IF predecessor_hash \in DOMAIN n.forks THEN PathTip
    ELSE IF predecessor_hash \in DOMAIN n.recent_blocks THEN PathRecent
    ELSE PathReplay

ResolvePredecessor(n, predecessor_hash) ==
    IF ResolvePath(n, predecessor_hash) = PathTip THEN ResolveTip(n, predecessor_hash)
    ELSE IF ResolvePath(n, predecessor_hash) = PathRecent
         THEN ResolveRecent(n, predecessor_hash)
         ELSE ResolveReplay(n, predecessor_hash)

PredecessorKnown(n, predecessor_hash) ==
    predecessor_hash \in DOMAIN n.forks \/ predecessor_hash \in n.blocks_set

(* chain.blocks[(predecessor_height - 1) as usize]: out of range panics *)
PredecessorIndexPanics(r) ==
    r.predecessor_height < 1 \/ r.predecessor_height > Len(r.chain.blocks)

DifficultyDecreases(r, block) ==
    r.chain.blocks[r.predecessor_height][1].difficulty > block.difficulty

(* Variant: the predecessor's entry stays in forks *)
ForksAfterSubmit_KeepsPredecessor(n, block, timestamp, r, chain) ==
    MapInsert(n.forks, block.hash,
              ForkEntry(r.predecessor_height + 1, timestamp,
                        r.predecessor_total_work + Pow16(block.difficulty), chain))

(* Network::submit: forks after the predecessor's entry is removed and the *)
(* new tip's entry inserted                                                 *)
ForksAfterSubmit(n, block, timestamp, r, chain) ==
    MapInsert(MapRemove(n.forks, block.predecessor), block.hash,
              ForkEntry(r.predecessor_height + 1, timestamp,
                        r.predecessor_total_work + Pow16(block.difficulty), chain))

(* Variant: the predecessor's Head is looked up with the new height and so *)
(* is never removed                                                         *)
HeadsAfterSubmit_StaleHead(n, block, r) ==
    (n.heads \ {MkHead(r.predecessor_height + 1, r.predecessor_total_work, block.predecessor)})
    \cup {MkHead(r.predecessor_height + 1,
                 r.predecessor_total_work + Pow16(block.difficulty), block.hash)}

(* Network::submit: heads after the predecessor's Head is removed and the  *)
(* new tip's Head inserted                                                  *)
HeadsAfterSubmit(n, block, r) ==
    (n.heads \ {MkHead(r.predecessor_height, r.predecessor_total_work, block.predecessor)})
    \cup {MkHead(r.predecessor_height + 1,
                 r.predecessor_total_work + Pow16(block.difficulty), block.hash)}

(* Variant: forks and heads are updated before Blockchain::submit is asked *)
Accept_UpdateBeforeCheck(n, block, timestamp, r) ==
    LET c == Blockchain_submit(r.chain, block, timestamp)
        n1 == [n EXCEPT !.forks = ForksAfterSubmit(n, block, timestamp, r, c.chain),
                        !.heads = HeadsAfterSubmit(n, block, r)]
    IN  IF ~c.ok THEN {Rejected(n1, ErrTransaction)}
        ELSE IF Pow16Aborts(block.difficulty) THEN {Rejected(n, Panic)}
        ELSE Finish(n1, block.hash,
                    RecentEntry(r.predecessor_height + 1, timestamp,
                                r.predecessor_total_work + Pow16(block.difficulty), block,
                                c.chain.outputs_set, c.chain.outputs))

(* Network::submit from the call of Blockchain::submit on *)
Accept(n, block, timestamp, r) ==
    LET c == Blockchain_submit(r.chain, block, timestamp)
        n1 == [n EXCEPT !.forks = ForksAfterSubmit(n, block, timestamp, r, c.chain),
                        !.heads = HeadsAfterSubmit(n, block, r)]
    IN  IF ~c.ok THEN {Rejected(n, ErrTransaction)}
        ELSE IF Pow16Aborts(block.difficulty) THEN {Rejected(n, Panic)}
        ELSE Finish(n1, block.hash,
                    RecentEntry(r.predecessor_height + 1, timestamp,
                                r.predecessor_total_work + Pow16(block.difficulty), block,
                                c.chain.outputs_set, c.chain.outputs))

(* Network::submit, after the four ordered checks *)
Extend(n, block, timestamp) ==
    LET r == ResolvePredecessor(n, block.predecessor)
    IN  IF r.panic THEN {Rejected(n, Panic)}
        ELSE IF PredecessorIndexPanics(r) THEN {Rejected(n, Panic)}
        ELSE IF DifficultyDecreases(r, block) THEN {Rejected(n, ErrDifficulty)}
        ELSE Accept(n, block, timestamp, r)

(* Variant: the duplicate check comes before the predecessor check *)
Network_submit_DuplicateFirst(n, block, timestamp) ==
    IF n.heads = {} THEN {Rejected(n, ErrMustInit)}
    ELSE IF HashSplitPanics(block) THEN {Rejected(n, Panic)}
    ELSE IF ~LeadingZeroesMatch(block) THEN {Rejected(n, ErrLeadingZeroes)}
    ELSE IF DuplicateHash(n, block.hash) THEN {Rejected(n, ErrDuplicate)}
    ELSE IF ~PredecessorKnown(n, block.predecessor) THEN {Rejected(n, ErrNoPredecessor)}
    ELSE Extend(n, block, timestamp)

(* Network::submit: the outcomes of the call *)
Network_submit(n, block, timestamp) ==
    IF n.heads = {} THEN {Rejected(n, ErrMustInit)}
    ELSE IF HashSplitPanics(block) THEN {Rejected(n, Panic)}
    ELSE IF ~LeadingZeroesMatch(block) THEN {Rejected(n, ErrLeadingZeroes)}
    ELSE IF ~PredecessorKnown(n, block.predecessor) THEN {Rejected(n, ErrNoPredecessor)}
    ELSE IF DuplicateHash(n, block.hash) THEN {Rejected(n, ErrDuplicate)}
    ELSE Extend(n, block, timestamp)

-----------------------------------------------------------------------------
(* The blocks offered to the network.  Hashes are "0x" and three digits;   *)
(* hE and hF start with one zero digit, the others with none.              *)

hZero == <<"0", "x", "0">>
hA == <<"0", "x", "a", "0", "0">>
hB == <<"0", "x", "b", "0", "0">>
hC == <<"0", "x", "c", "0", "0">>
hD == <<"0", "x", "d", "0", "0">>
hE == <<"0", "x", "0", "e", "0">>
hF == <<"0", "x", "0", "f", "0">>
hG == <<"0", "x", "9", "0", "0">>
hL == <<"0", "x", "1", "0", "0">>
hT == <<"0", "x", "2", "0", "0">>
hX == <<"0", "x", "3", "0", "0">>
hM == <<"0", "x", "4", "0", "0">>
hQ == <<"0", "x", "0", "6", "0">>
hY == <<"0", "x", "7", "0", "0">>
hZ == <<"0", "x", "0", "0", "5">>
hH == ZeroPrefix(16) \o <<"1">>
hR == ZeroPrefix(16) \o <<"2">>

(* A chain A <- B <- C <- D with the forks E (off B) and F (off A), both of *)
(* difficulty 1                                                            *)
BlockA == Block(0, hA, hZero, <<Tx(<< >>, <<Out(1, 5)>>)>>)
BlockB == Block(0, hB, hA, <<Tx(<<Out(1, 5)>>, <<Out(2, 5)>>)>>)
(* C also carries a coinbase that pays nothing; D names its one input twice *)
BlockC == Block(0, hC, hB, <<Tx(<<Out(2, 5)>>, <<Out(3, 5)>>),
                             Tx(<< >>, <<Out(13, 0)>>)>>)
BlockD == Block(0, hD, hC, <<Tx(<<Out(3, 5), Out(3, 5)>>, <<Out(4, 10)>>)>>)
BlockE == Block(1, hE, hB, <<Tx(<<Out(2, 5)>>, <<Out(5, 2), Out(6, 3)>>)>>)
BlockF == Block(1, hF, hA, <<Tx(<<Out(1, 5)>>, <<Out(7, 5)>>)>>)
(* A second root *)
BlockG == Block(0, hG, hZero, << >>)
(* Difficulty 1 with a hash that has no leading zero *)
BlockL == Block(1, hL, hA, << >>)
(* Two transactions spending the same output *)
BlockT == Block(0, hT, hA, <<Tx(<<Out(1, 5)>>, <<Out(8, 5)>>),
                             Tx(<<Out(1, 5)>>, <<Out(9, 5)>>)>>)
(* A lower difficulty than its predecessor E, and an input that never existed *)
BlockX == Block(0, hX, hE, <<Tx(<<Out(10, 1)>>, <<Out(11, 1)>>)>>)

(* A coinbase that pays 5, after the first block *)
BlockM == Block(0, hM, hA, <<Tx(<< >>, <<Out(14, 5)>>)>>)

SubmitBlocks == {BlockB, BlockC, BlockD, BlockE, BlockF,
                 BlockL, BlockT, BlockX, BlockM}
InitBlocks == {BlockA, BlockC, BlockG}

(* Two forks off A that grow in turn: A <- B <- Z, with Z of difficulty 2, *)
(* and A <- F <- Q, with Q of difficulty 1; Y has difficulty 0 and names F  *)
(* as its predecessor                                                       *)
BlockQ == Block(1, hQ, hF, <<Tx(<<Out(7, 5)>>, <<Out(16, 5)>>)>>)
BlockY == Block(0, hY, hF, << >>)
BlockZ == Block(2, hZ, hB, <<Tx(<<Out(2, 5)>>, <<Out(15, 5)>>)>>)

ForkBlocks == {BlockA, BlockB, BlockF, BlockQ, BlockY, BlockZ}

(* Blocks of difficulty 16, whose work 16^16 = 2^64 does not fit a u64: H  *)
(* on A, and the root R                                                     *)
BlockH == Block(16, hH, hA, << >>)
BlockR == Block(16, hR, hZero, << >>)

WorkBlocks == {BlockA, BlockB, BlockF, BlockH}
WorkInitBlocks == {BlockA, BlockR}

BlockOf(hash) ==
    CHOOSE b \in SubmitBlocks \cup InitBlocks \cup ForkBlocks \cup WorkBlocks
                   \cup WorkInitBlocks :
        b.hash = hash

-----------------------------------------------------------------------------
(* The state machine *)

Net ==
    [recent_blocks |-> recent_blocks, recent_blocks_queue |-> recent_blocks_queue,
     forks |-> forks, heads |-> heads, blocks |-> blocks, blocks_set |-> blocks_set,
     state |-> state]

Started ==
    /\ recent_blocks = NewNetwork.recent_blocks
    /\ recent_blocks_queue = NewNetwork.recent_blocks_queue
    /\ forks = NewNetwork.forks
    /\ heads = NewNetwork.heads
    /\ blocks = NewNetwork.blocks
    /\ blocks_set = NewNetwork.blocks_set
    /\ state = NewNetwork.state
    /\ clock = 0
    /\ cmd = [op |-> "new", block |-> NoHash]
    /\ result = Ok
    /\ accepted = 0

(* Spec and SpecFork offer no block of a difficulty of 16 or more, so the  *)
(* build makes no difference to them; SpecWork starts from either build    *)
Init == Started /\ overflow_checks = FALSE

InitBuild == Started /\ overflow_checks \in BOOLEAN

(* One call: what it printed, and the network it left.  A panic ends the   *)
(* process, so the model keeps the network as it was before the call.       *)
CallWithin(limit, op, block, o) ==
    /\ result # Panic
    /\ o.result = Ok => accepted < limit
    /\ cmd' = [op |-> op, block |-> block.hash]
    /\ result' = o.result
    /\ accepted' = IF o.result = Ok THEN accepted + 1 ELSE accepted
    /\ IF o.result = Panic
       THEN UNCHANGED netvars
       ELSE /\ recent_blocks' = o.net.recent_blocks
            /\ recent_blocks_queue' = o.net.recent_blocks_queue
            /\ forks' = o.net.forks
            /\ heads' = o.net.heads
            /\ blocks' = o.net.blocks
            /\ blocks_set' = o.net.blocks_set
            /\ state' = o.net.state
    /\ UNCHANGED <<clock, overflow_checks>>

Call(op, block, o) == CallWithin(MaxAccepted, op, block, o)

DoInit ==
    \E block \in InitBlocks : \E o \in Network_init(Net, block, clock) :
        Call("init", block, o)

DoSubmit ==
    \E block \in SubmitBlocks : \E o \in Network_submit(Net, block, clock) :
        Call("submit", block, o)

(* Time passes between two calls *)
Tick ==
    /\ result # Panic
    /\ clock < MaxTime
    /\ clock' = clock + 1
    /\ UNCHANGED <<netvars, cmd, result, accepted, overflow_checks>>

Next == DoInit \/ DoSubmit \/ Tick

Spec == Init /\ [][Next]_vars

(* The same program fed one first block and the blocks of the two forks *)
InitGenesis ==
    \E o \in Network_init(Net, BlockA, clock) :
        CallWithin(MaxForkAccepted, "init", BlockA, o)

SubmitFork ==
    \E block \in ForkBlocks : \E o \in Network_submit(Net, block, clock) :
        CallWithin(MaxForkAccepted, "submit", block, o)

NextFork == InitGenesis \/ SubmitFork \/ Tick

SpecFork == Init /\ [][NextFork]_vars

(* The same program, in either build, fed blocks of difficulty 16 *)
InitWork ==
    \E block \in WorkInitBlocks : \E o \in Network_init(Net, block, clock) :
        CallWithin(MaxWorkAccepted, "init", block, o)

SubmitWork ==
    \E block \in WorkBlocks : \E o \in Network_submit(Net, block, clock) :
        CallWithin(MaxWorkAccepted, "submit", block, o)

NextWork == InitWork \/ SubmitWork \/ Tick

SpecWork == InitBuild /\ [][NextWork]_vars

-----------------------------------------------------------------------------
(* Properties *)

ForkBodies == {forks[h].chain : h \in DOMAIN forks}

BlockHashes(blks) == {blks[i][1].hash : i \in DOMAIN blks}

(* The unspent outputs after the first i blocks of blks, replayed from the first *)
RECURSIVE ReplayOutputs(_, _)
ReplayOutputs(blks, i) ==
    IF i = 0 THEN {}
    ELSE (ReplayOutputs(blks, i - 1) \ blocks_spent(blks[i][1])) \cup blocks_created(blks[i][1])

(* A step that is a call of init or submit (time stands still during it) *)
CallStep == clock' = clock

(* The hashes of all the blocks held by some fork body *)
AcceptedHashes == UNION {BlockHashes(F.blocks) : F \in ForkBodies}

Successful == result = Ok /\ cmd.op \in {"init", "submit"}

(* C1: a rejected init or submit (any of the six error messages) leaves    *)
(* every field of the Network unchanged                                     *)
C1_RejectionLeavesNetworkUnchanged ==
    [][result' \in Errors => UNCHANGED netvars]_vars

(* A submit was rejected for its transactions, after its fork was resolved *)
C1_Witness ==
    /\ cmd.op = "submit"
    /\ result = ErrTransaction
    /\ Cardinality(DOMAIN forks) >= 2

(* C2: in every reachable state every stored fork body's outputs_set is    *)
(* the replay of its blocks from the first one                              *)
C2_OutputsSetIsReplay ==
    \A F \in ForkBodies : F.outputs_set = ReplayOutputs(F.blocks, Len(F.blocks))

(* C3: in every reachable state every stored fork body's blocks_set is the *)
(* set of the hashes of its blocks, and Network.blocks_set is the set of   *)
(* the hashes of Network.blocks                                             *)
C3_BlocksSetMirrorsBlocks ==
    /\ \A F \in ForkBodies : F.blocks_set = BlockHashes(F.blocks)
    /\ blocks_set = BlockHashes(blocks)

(* C4: in every reachable state heads and the keys of forks name the same  *)
(* hashes, with one Head per key, and each Head has the height and the     *)
(* totalWork of the forks entry of its hash                                 *)
C4_HeadsMatchForks ==
    /\ {h.hash : h \in heads} = DOMAIN forks
    /\ \A h, g \in heads : h.hash = g.hash => h = g
    /\ \A h \in heads : h.hash \in DOMAIN forks =>
           /\ h.height = forks[h.hash].height
           /\ h.totalWork = forks[h.hash].totalWork

(* A submit that extended a tip was accepted beside another fork *)
C4_Witness ==
    /\ Successful
    /\ cmd.op = "submit"
    /\ Cardinality(heads) >= 2
    /\ BlockOf(cmd.block).predecessor \notin DOMAIN forks
    /\ \E h \in heads : h.hash = cmd.block /\ h.height >= 3

C6_QueueBoundedAndCached ==
    /\ Len(recent_blocks_queue) <= recent_count_limit
    /\ \A i \in DOMAIN recent_blocks_queue : recent_blocks_queue[i] \in DOMAIN recent_blocks

(* C7: submit reports the first failing check in the order: heads empty,   *)
(* leading zeroes, unknown predecessor, duplicate hash, difficulty         *)
(* decreased, invalid transaction                                           *)
C7_FirstFailingCheckIsReported ==
    [][(CallStep /\ cmd'.op = "submit" /\ result' # Panic) =>
        LET block == BlockOf(cmd'.block)
            r == ResolvePredecessor(Net, block.predecessor)
            c1 == heads = {}
            c2 == ~LeadingZeroesMatch(block)
            c3 == ~PredecessorKnown(Net, block.predecessor)
            c4 == DuplicateHash(Net, block.hash)
            c5 == DifficultyDecreases(r, block)
            c6 == ~TransactionsValid(block.transactions, 1, r.chain.outputs_set, {})
        IN  IF c1 THEN result' = ErrMustInit
            ELSE IF c2 THEN result' = ErrLeadingZeroes
            ELSE IF c3 THEN result' = ErrNoPredecessor
            ELSE IF c4 THEN result' = ErrDuplicate
            ELSE IF c5 THEN result' = ErrDifficulty
            ELSE IF c6 THEN result' = ErrTransaction
            ELSE result' = Ok
      ]_vars

(* A submit whose block has a lower difficulty than its predecessor and an *)
(* invalid transaction was reported as a decrease of the difficulty        *)
C7_Witness ==
    /\ cmd.op = "submit"
    /\ result = ErrDifficulty
    /\ LET block == BlockOf(cmd.block)
           r == ResolvePredecessor(Net, block.predecessor)
       IN  /\ DifficultyDecreases(r, block)
           /\ ~TransactionsValid(block.transactions, 1, r.chain.outputs_set, {})

(* C8: on an initialized network a submit that passes the leading-zero     *)
(* check is rejected with "no predecessor found" exactly when its          *)
(* predecessor is neither a key of forks nor the hash of a block of         *)
(* Network.blocks                                                           *)
C8_NoPredecessorIffUnknown ==
    [][(CallStep /\ cmd'.op = "submit" /\ heads # {}
          /\ LeadingZeroesMatch(BlockOf(cmd'.block))) =>
        (result' = ErrNoPredecessor <=>
            /\ BlockOf(cmd'.block).predecessor \notin DOMAIN forks
            /\ BlockOf(cmd'.block).predecessor \notin BlockHashes(blocks))
      ]_vars

(* C9: init, and submit once its earlier checks pass, reject with          *)
(* "duplicate hash" a block whose hash is a key of forks or the hash of a  *)
(* block of Network.blocks                                                  *)
C9_KnownHashIsDuplicate ==
    [][(/\ CallStep
        /\ cmd'.block \in (DOMAIN forks) \cup BlockHashes(blocks)
        /\ \/ cmd'.op = "init"
           \/ /\ cmd'.op = "submit"
              /\ heads # {}
              /\ LeadingZeroesMatch(BlockOf(cmd'.block))
              /\ PredecessorKnown(Net, BlockOf(cmd'.block).predecessor))
        => result' = ErrDuplicate
      ]_vars

(* C10: a block whose hash is held by some fork body is not accepted again *)
(* by init or submit                                                        *)
C10_NoHashAcceptedTwice ==
    [][(CallStep /\ cmd'.op \in {"init", "submit"} /\ cmd'.block \in AcceptedHashes)
        => result' # Ok]_vars

(* The input lists of all the transactions of a block, one after the other *)
RECURSIVE AllInputs(_, _)
AllInputs(txs, i) ==
    IF i = 0 THEN << >> ELSE AllInputs(txs, i - 1) \o txs[i].inputs

Occurrences(s, x) == Cardinality({i \in DOMAIN s : s[i] = x})

(* Every input is unspent in the body and named once in the whole block *)
SpendsEachInputOnce(block, utxo) ==
    LET all == AllInputs(block.transactions, Len(block.transactions))
    IN  \A i \in DOMAIN all : all[i] \in utxo /\ Occurrences(all, all[i]) = 1

(* A submit that got as far as the check of the transactions *)
ReachesTransactions(n, block) ==
    /\ n.heads # {}
    /\ LeadingZeroesMatch(block)
    /\ PredecessorKnown(n, block.predecessor)
    /\ ~DuplicateHash(n, block.hash)
    /\ ~ResolvePredecessor(n, block.predecessor).panic
    /\ ~DifficultyDecreases(ResolvePredecessor(n, block.predecessor), block)

(* C11: a block accepted by submit spends only outputs that are unspent in *)
(* the body resolved for its predecessor, and names each of them once over *)
(* all the input lists of its transactions; a block that does not is       *)
(* rejected with "invalid transaction"                                      *)
C11_NoOutputSpentTwiceInBlock ==
    [][(CallStep /\ cmd'.op = "submit" /\ ReachesTransactions(Net, BlockOf(cmd'.block))) =>
        LET block == BlockOf(cmd'.block)
            r == ResolvePredecessor(Net, block.predecessor)
        IN  /\ result' = Ok => SpendsEachInputOnce(block, r.chain.outputs_set)
            /\ ~SpendsEachInputOnce(block, r.chain.outputs_set) => result' = ErrTransaction
      ]_vars

(* C12: a block accepted by submit has at least the difficulty of the      *)
(* block whose hash is its predecessor, and a submit of a block of a lower *)
(* difficulty than that block is rejected with "difficulty must not        *)
(* decrease", whichever way the predecessor is resolved                     *)
C12_DifficultyNeverDecreases ==
    [][(/\ CallStep
        /\ cmd'.op = "submit"
        /\ result' # Panic
        /\ heads # {}
        /\ LeadingZeroesMatch(BlockOf(cmd'.block))
        /\ PredecessorKnown(Net, BlockOf(cmd'.block).predecessor)
        /\ ~DuplicateHash(Net, cmd'.block)) =>
        LET block == BlockOf(cmd'.block)
            p == BlockOf(block.predecessor)
        IN  /\ result' = Ok => block.difficulty >= p.difficulty
            /\ block.difficulty < p.difficulty => result' = ErrDifficulty
      ]_vars

NotCoinbase(t) == ~is_coinbase(t)

(* C13: a submitted block that has a transaction without inputs and       *)
(* reaches the check of its transactions is                                *)
(* accepted exactly when each of its transactions without inputs has       *)
(* outputs that sum to zero and its other transactions are valid; so a     *)
(* coinbase that pays anything is rejected with "invalid transaction"      *)
C13_CoinbaseAcceptedIffZeroSum ==
    [][(/\ CallStep
        /\ cmd'.op = "submit"
        /\ result' # Panic
        /\ \E i \in DOMAIN BlockOf(cmd'.block).transactions :
              is_coinbase(BlockOf(cmd'.block).transactions[i])
        /\ ReachesTransactions(Net, BlockOf(cmd'.block))) =>
        LET block == BlockOf(cmd'.block)
            r == ResolvePredecessor(Net, block.predecessor)
            coinbases == {i \in DOMAIN block.transactions : is_coinbase(block.transactions[i])}
            others == SelectSeq(block.transactions, NotCoinbase)
        IN  /\ result' = Ok <=>
                  /\ \A i \in coinbases : output_value(block.transactions[i]) = 0
                  /\ TransactionsValid(others, 1, r.chain.outputs_set, {})
            /\ (\E i \in coinbases : output_value(block.transactions[i]) # 0)
                  => result' = ErrTransaction
      ]_vars

(* A block with a coinbase that pays 5 was rejected on a chain that holds  *)
(* an accepted block with a coinbase that pays nothing                      *)
C13_Witness ==
    /\ cmd.op = "submit"
    /\ result = ErrTransaction
    /\ \E j \in DOMAIN BlockOf(cmd.block).transactions :
          /\ is_coinbase(BlockOf(cmd.block).transactions[j])
          /\ output_value(BlockOf(cmd.block).transactions[j]) # 0
    /\ \E i \in DOMAIN blocks :
          /\ i > 1
          /\ \E j \in DOMAIN blocks[i][1].transactions :
                /\ is_coinbase(blocks[i][1].transactions[j])
                /\ output_value(blocks[i][1].transactions[j]) = 0

(* C14: init on a network that has forks succeeds for every block whose    *)
(* hash is neither a tip nor the hash of a block of the main chain: it     *)
(* adds one forks entry and one Head of height 1 and totalWork             *)
(* 16^difficulty under the block's hash and leaves the other entries and   *)
(* Heads as they were; the first init, of a block of difficulty 0 without  *)
(* transactions, yields the state of height 1, totalWork 1 and no outputs  *)
C14_InitAddsRootFork ==
    [][(CallStep /\ cmd'.op = "init") =>
        LET block == BlockOf(cmd'.block)
        IN  /\ (/\ DOMAIN forks # {}
                /\ block.hash \notin DOMAIN forks
                /\ block.hash \notin BlockHashes(blocks)) =>
                  /\ result' = Ok
                  /\ DOMAIN forks' = (DOMAIN forks) \cup {block.hash}
                  /\ \A k \in DOMAIN forks : forks'[k] = forks[k]
                  /\ forks'[block.hash].height = 1
                  /\ forks'[block.hash].totalWork = Pow16(block.difficulty)
                  /\ heads' = heads \cup {MkHead(1, Pow16(block.difficulty), block.hash)}
            /\ (/\ DOMAIN forks = {}
                /\ block.difficulty = 0
                /\ block.transactions = << >>) =>
                  /\ result' = Ok
                  /\ state' = [height |-> 1, totalWork |-> 1, hash |-> block.hash,
                               outputs |-> {}]
      ]_vars

(* C15: after every successful init or submit the main chain is a longest  *)
(* one: state.height is the largest height of a head, state.totalWork is   *)
(* the largest totalWork among the heads of that height, and among those   *)
(* of that height and totalWork the main chain's tip was created first     *)
C15_LongestChainIsMain ==
    Successful =>
        /\ \A h \in heads : h.height <= state.height
        /\ \A h \in heads : h.height = state.height => h.totalWork <= state.totalWork
        /\ \A h \in heads :
              (/\ h.height = state.height
               /\ h.totalWork = state.totalWork
               /\ h.hash \in DOMAIN forks
               /\ state.hash \in DOMAIN forks)
                  => forks[state.hash].created_at <= forks[h.hash].created_at

(* C16: a successful submit whose predecessor was a tip removes that tip's *)
(* forks entry and Head and inserts one entry and one Head under the new   *)
(* hash, one higher and 16^difficulty heavier than the tip; one whose      *)
(* predecessor was not a tip removes and alters nothing and adds one entry *)
(* and one Head; and no step makes the number of forks smaller             *)
C16_SubmitReplacesTipOrAddsFork ==
    [][/\ Cardinality(DOMAIN forks') >= Cardinality(DOMAIN forks)
       /\ (CallStep /\ cmd'.op = "submit" /\ result' = Ok) =>
            LET block == BlockOf(cmd'.block)
                p == block.predecessor
                tip == {h \in heads : h.hash = p}
            IN  /\ block.hash \notin DOMAIN forks
                /\ \A h \in heads : h.hash # block.hash
                /\ IF p \in DOMAIN forks
                   THEN /\ DOMAIN forks' = ((DOMAIN forks) \ {p}) \cup {block.hash}
                        /\ \A k \in (DOMAIN forks) \ {p} : forks'[k] = forks[k]
                        /\ forks'[block.hash].height = forks[p].height + 1
                        /\ forks'[block.hash].totalWork =
                              forks[p].totalWork + Pow16(block.difficulty)
                        /\ Cardinality(tip) = 1
                        /\ heads' = (heads \ tip)
                              \cup {MkHead(forks[p].height + 1,
                                           forks[p].totalWork + Pow16(block.difficulty),
                                           block.hash)}
                   ELSE /\ DOMAIN forks' = (DOMAIN forks) \cup {block.hash}
                        /\ \A k \in DOMAIN forks : forks'[k] = forks[k]
                        /\ heads \subseteq heads'
                        /\ Cardinality(heads') = Cardinality(heads) + 1
                        /\ \E h \in heads' \ heads :
                              /\ h.hash = block.hash
                              /\ h.height = forks'[block.hash].height
                              /\ h.totalWork = forks'[block.hash].totalWork
      ]_vars

(* A block was accepted on a block inside the main chain, beside two forks *)
(* that were there before                                                   *)
C16_Witness ==
    /\ Successful
    /\ cmd.op = "submit"
    /\ Cardinality(DOMAIN forks) >= 3
    /\ cmd.block \in DOMAIN forks
    /\ cmd.block # state.hash
    /\ \E i \in DOMAIN blocks :
          /\ i < Len(blocks)
          /\ blocks[i][1].hash = BlockOf(cmd.block).predecessor

(* The sum of 16^difficulty over the first i blocks of blks *)
RECURSIVE WorkOf(_, _)
WorkOf(blks, i) ==
    IF i = 0 THEN 0 ELSE WorkOf(blks, i - 1) + Pow16(blks[i][1].difficulty)

(* C17: in every reachable state every forks entry has the number of the   *)
(* blocks of its body as its height, the sum of 16^difficulty over them as *)
(* its totalWork, and the hash of the last of them as its key               *)
C17_ForkEntryDescribesItsBody ==
    \A k \in DOMAIN forks :
        LET F == forks[k].chain
        IN  /\ forks[k].height = Len(F.blocks)
            /\ forks[k].totalWork = WorkOf(F.blocks, Len(F.blocks))
            /\ Len(F.blocks) > 0
            /\ k = F.blocks[Len(F.blocks)][1].hash

(* A submit that got as far as resolving its predecessor *)
ReachesResolution(n, block) ==
    /\ n.heads # {}
    /\ LeadingZeroesMatch(block)
    /\ PredecessorKnown(n, block.predecessor)
    /\ ~DuplicateHash(n, block.hash)

(* C18: when submit resolves the predecessor through the cache of recent   *)
(* tips, the body it builds has the main chain's blocks up to and          *)
(* including the predecessor, the cached outputs of the predecessor, and   *)
(* as blocks_set the main chain's blocks_set without the cached hashes of  *)
(* a cached height above the predecessor's                                  *)
C18_CachePathBody ==
    [][(/\ CallStep
        /\ cmd'.op = "submit"
        /\ result' # Panic
        /\ ReachesResolution(Net, BlockOf(cmd'.block))
        /\ ResolvePath(Net, BlockOf(cmd'.block).predecessor) = PathRecent) =>
        LET p == BlockOf(cmd'.block).predecessor
            e == recent_blocks[p]
            r == ResolveRecent(Net, p)
            later == {q \in DOMAIN recent_blocks : recent_blocks[q].height > e.height}
        IN  /\ \E i \in DOMAIN blocks :
                  /\ blocks[i][1].hash = p
                  /\ r.chain.blocks = SubSeq(blocks, 1, i)
            /\ r.chain.outputs_set = e.outputs_set
            /\ r.chain.outputs = e.outputs
            /\ r.chain.blocks_set = blocks_set \ later
      ]_vars

(* C19: when the predecessor of a submitted block is a block of the main   *)
(* chain that is neither a tip nor cached, compute_chain_at_block returns  *)
(* the main chain's blocks up to and including the predecessor, the replay *)
(* of those blocks alone as outputs_set, and the sum of 16^difficulty over *)
(* them as totalWork; if the block is accepted, its fork is one higher     *)
(* than that prefix is long                                                 *)
C19_ReplayStopsAtPredecessor ==
    [][(/\ CallStep
        /\ cmd'.op = "submit"
        /\ result' # Panic
        /\ ReachesResolution(Net, BlockOf(cmd'.block))
        /\ ResolvePath(Net, BlockOf(cmd'.block).predecessor) = PathReplay
        /\ BlockOf(cmd'.block).predecessor \in BlockHashes(blocks)) =>
        LET p == BlockOf(cmd'.block).predecessor
            r == compute_chain_at_block(blocks, p)
            i == Len(r.chain.blocks)
        IN  /\ i \in DOMAIN blocks
            /\ blocks[i][1].hash = p
            /\ r.chain.blocks = SubSeq(blocks, 1, i)
            /\ r.chain.outputs_set = ReplayOutputs(blocks, i)
            /\ r.total_work = WorkOf(blocks, i)
            /\ result' = Ok => forks'[cmd'.block].height = i + 1
      ]_vars

(* A block was accepted on the first block of a main chain of three, whose *)
(* cache holds the second and the third, and did not become the main chain *)
C19_Witness ==
    /\ Successful
    /\ cmd.op = "submit"
    /\ cmd.block \in DOMAIN forks
    /\ cmd.block # state.hash
    /\ Len(blocks) >= 3
    /\ BlockOf(cmd.block).predecessor = blocks[1][1].hash
    /\ BlockOf(cmd.block).predecessor \notin DOMAIN recent_blocks
    /\ forks[cmd.block].height = 2

(* C20: a successful init or submit changes the cache of recent tips       *)
(* exactly when the accepted block is the last block of the new main       *)
(* chain: its hash is then appended to recent_blocks_queue and its height, *)
(* totalWork and outputs are stored under it in recent_blocks, after the   *)
(* oldest hash is popped and its entry deleted if the queue held           *)
(* recent_count_limit hashes; otherwise both are left as they were         *)
C20_CacheFollowsMainTip ==
    [][(CallStep /\ cmd'.op \in {"init", "submit"} /\ result' = Ok) =>
        LET bhash == cmd'.block
            full == Len(recent_blocks_queue) = recent_count_limit
            popped == IF full THEN {Head(recent_blocks_queue)} ELSE {}
        IN  IF blocks'[Len(blocks')][1].hash = bhash
            THEN /\ recent_blocks_queue' =
                       Append(IF full THEN Tail(recent_blocks_queue)
                              ELSE recent_blocks_queue, bhash)
                 /\ DOMAIN recent_blocks' = ((DOMAIN recent_blocks) \ popped) \cup {bhash}
                 /\ \A q \in (DOMAIN recent_blocks') \ {bhash} :
                       recent_blocks'[q] = recent_blocks[q]
                 /\ bhash \in DOMAIN recent_blocks'
                 /\ recent_blocks'[bhash].height = forks'[bhash].height
                 /\ recent_blocks'[bhash].totalWork = forks'[bhash].totalWork
                 /\ recent_blocks'[bhash].outputs_set = forks'[bhash].chain.outputs_set
            ELSE UNCHANGED <<recent_blocks, recent_blocks_queue>>
      ]_vars

(* C22: in every reachable state every stored fork body is hash-linked:    *)
(* each block after the first names the hash of the block before it as its *)
(* predecessor                                                              *)
C22_ForkBodiesAreHashLinked ==
    \A F \in ForkBodies : \A i \in DOMAIN F.blocks :
        i > 1 => F.blocks[i][1].predecessor = F.blocks[i - 1][1].hash

(* C24: whenever a hash is a key of recent_blocks and the hash of a block  *)
(* of the main chain, its cached height, totalWork and outputs_set are the *)
(* number of blocks, the totalWork and the outputs_set that                *)
(* compute_chain_at_block returns for it                                    *)
C24_CacheAgreesWithReplay ==
    \A q \in (DOMAIN recent_blocks) \cap BlockHashes(blocks) :
        LET r == compute_chain_at_block(blocks, q)
        IN  /\ recent_blocks[q].height = Len(r.chain.blocks)
            /\ recent_blocks[q].totalWork = r.total_work
            /\ recent_blocks[q].outputs_set = r.chain.outputs_set

(* The sum of the amounts of a set of outputs *)
RECURSIVE SetValue(_)
SetValue(S) ==
    IF S = {} THEN 0
    ELSE LET o == CHOOSE x \in S : TRUE IN o.amount + SetValue(S \ {o})

(* C26: a block accepted by submit conserves value: the amounts of the     *)
(* outputs_set of its fork after it sum to what the amounts of the         *)
(* outputs_set of the body resolved for its predecessor summed to          *)
C26_SubmitConservesValue ==
    [][(CallStep /\ cmd'.op = "submit" /\ result' = Ok) =>
        LET r == ResolvePredecessor(Net, BlockOf(cmd'.block).predecessor)
        IN  SetValue(forks'[cmd'.block].chain.outputs_set) = SetValue(r.chain.outputs_set)
      ]_vars

(* C25: state.totalWork never decreases, and state.hash changes only in a  *)
(* call that accepts a block whose fork has more totalWork than every      *)
(* other head or whose predecessor was the main chain's tip                 *)
C25_MainChainOnlyMovesForward ==
    [][/\ state'.totalWork >= state.totalWork
       /\ state'.hash # state.hash =>
            /\ CallStep
            /\ cmd'.op \in {"init", "submit"}
            /\ result' = Ok
            /\ cmd'.block \in DOMAIN forks'
            /\ \/ \A h \in heads' :
                     h.hash # cmd'.block => h.totalWork < forks'[cmd'.block].totalWork
               \/ /\ cmd'.op = "submit"
                  /\ BlockOf(cmd'.block).predecessor = state.hash
      ]_vars

(* C23: no init or submit of a block of a difficulty below 16 aborts: the  *)
(* index predecessor_height - 1 lies within the resolved body's blocks,    *)
(* every queued hash has its entry in recent_blocks when the exclusion set *)
(* is built, and the head get_main_chain selects is a key of forks          *)
C23_NoCallAborts ==
    result # Panic

(* The totalWork of the predecessor as the call resolves it: none for init *)
PredecessorWork(op, block) ==
    IF op = "init" THEN 0
    ELSE ResolvePredecessor(Net, block.predecessor).predecessor_total_work

(* The call passes every check that rejects a block with a message *)
PassesChecks(op, block) ==
    IF op = "init" THEN ~DuplicateHash(Net, block.hash)
    ELSE /\ ReachesTransactions(Net, block)
         /\ TransactionsValid(block.transactions, 1,
                              ResolvePredecessor(Net, block.predecessor).chain.outputs_set, {})

(* C21: init and submit of a block of any difficulty from 0 to 64 that     *)
(* passes the checks do not abort and do not wrap: 16^difficulty fits the  *)
(* 64-bit accumulator, the new head's totalWork is the predecessor's plus  *)
(* 16^difficulty and so greater than it, and the fork choice finds a head  *)
C21_TotalWorkIsExact ==
    [][(/\ CallStep
        /\ cmd'.op \in {"init", "submit"}
        /\ PassesChecks(cmd'.op, BlockOf(cmd'.block))) =>
        LET block == BlockOf(cmd'.block)
            before == PredecessorWork(cmd'.op, block)
        IN  /\ result' = Ok
            /\ ~Pow16Overflows(block.difficulty)
            /\ forks'[block.hash].totalWork = before + 16 ^ block.difficulty
            /\ forks'[block.hash].totalWork > before
            /\ state'.hash \in DOMAIN forks'
      ]_vars

====
